---- MODULE Spec2Model ----
(***************************************************************************)
(* A model of pysb's GPU stochastic-simulation engine                      *)
(* (src/pysb/simulator/gpu_ssa.py) and of the parts of the simulator base  *)
(* class (src/pysb/simulator/base.py) it calls.                            *)
(*                                                                         *)
(* Six specifications share the module:                                    *)
(*   SpecStoich  the stoichiometry builder (_rhs, _lhs) over bounded       *)
(*               reaction lists;                                           *)
(*   SpecRate    the rewriting of one reaction's rate text in              *)
(*               _pysb_to_cuda;                                            *)
(*   SpecCodegen the whole of _pysb_to_cuda on the text it writes;          *)
(*   SpecInitials the base class's initials_list over bounded overrides;   *)
(*   Spec        one GPUSimulator instance and the runs made on it with    *)
(*               every matrix passed;                                      *)
(*   SpecDefaults the same instance called with matrices left out.         *)
(*                                                                         *)
(* The sources are Python 2 (base.py: __metaclass__, list-valued zip), so  *)
(* "/" between two ints is floor division.                                 *)
(***************************************************************************)
EXTENDS Integers, Sequences, FiniteSets, TLC

VARIABLES
    \* ---- stoichiometry builder (SpecStoich)
    model_reactions,   \* model.reactions: sequence of [reactants, products]
    stoich_pc,         \* "model" | "rhs" | "lhs" | "done"
    right_side,        \* value returned by _rhs(model)
    left_side,         \* value returned by _lhs(model)
    stoich_matrix,     \* (_rhs + _lhs).T
    \* ---- rate rewriting (SpecRate)
    rate_in,           \* the rate text after the observable substitution
    rate,              \* the rate text being rewritten
    rate_pc,           \* "fcode" | "powers"
    \* ---- kernel-source generation (SpecCodegen)
    gen_model,         \* the model: parameter names and reactions
    stoich_string,     \* _pysb_to_cuda's local of the last call
    hazards_string,    \* _pysb_to_cuda's local of the last call
    codes,             \* the source texts the calls returned, in order
    \* ---- initials_list of the base class (SpecInitials)
    initial_conditions,  \* model.initial_conditions: sequence of <<species, value>>
    y0,                \* what initials_list returned
    ic_pc,             \* "call" | "returned"
    \* ---- the simulator object: attributes of the base class
    _params,           \* None, or what the param_values setter stored
    _initials,         \* None, or what the initials setter stored
    \* ---- the simulator object (Spec)
    _step_0,           \* True until _setup has completed once
    _kernel,           \* None, or the compiled module and its handles
    _param_tex,        \* None, or the array bound to the parameter texture
    _threads,
    _blocks,
    _total_threads,
    \* ---- the run in progress
    pc,                \* position of the host thread
    mode,              \* None | "run" | "run_one_step"
    args,              \* the arguments of the call
    n,                 \* index into tspan of the interval being run
    start_time,        \* per-trajectory start times of the next launch
    start_array,       \* start state of the next launch
    final_result,      \* the array assembled by run
    dev,               \* device buffers and arguments of the current launch
    outstanding,       \* kernel launches not yet synchronized
    result,            \* what _run / _run_all handed back last
    returned,          \* what the call gave its caller
    held,              \* the device allocations of the run that are alive
    \* ---- history
    compiles,          \* successful compilations on this simulator
    compile_calls,     \* calls of _compile made by the current run
    device_error,      \* the error a launch or synchronization of the run raised
    launch_log,        \* the launches of the current run, in order
    return_log         \* what each completed interval of the run handed back

stoichVars == <<model_reactions, stoich_pc, right_side, left_side, stoich_matrix>>
rateVars == <<rate_in, rate, rate_pc>>
simFields == <<_step_0, _kernel, _param_tex, _threads, _blocks, _total_threads>>
runVars == <<pc, mode, args, n, start_time, start_array, final_result, dev,
             outstanding, result, returned, held>>
histVars == <<compiles, compile_calls, device_error, launch_log, return_log>>
baseFields == <<_params, _initials>>
simVars == <<baseFields, simFields, runVars, histVars>>
genVars == <<gen_model, stoich_string, hazards_string, codes>>
icVars == <<initial_conditions, y0, ic_pc>>
otherVars == <<stoichVars, rateVars, genVars, icVars>>
vars == <<stoichVars, rateVars, genVars, icVars, simVars>>

None == "None"

\* ------------------------------------------------------------------------
\* The model under simulation: species A, B; parameter k; reaction A -> B.
\* ------------------------------------------------------------------------
model_species == <<"A", "B">>
model_parameters == <<"k">>

_species_number == Len(model_species)
_parameter_number == Len(model_parameters)

\* Species indices are 0-based, as in model.reactions[i]['reactants'].
SpeciesIdx == 0 .. (_species_number - 1)

\* ------------------------------------------------------------------------
\* Bounds of the stoichiometry and rate specifications
\* ------------------------------------------------------------------------
MaxRxn == 1        \* reactions in a reaction list
MaxArity == 2      \* reactant (product) indices of one reaction
MaxFactors == 2    \* factors of one rate expression
MaxPow == 3        \* largest integer power of a rate term

RECURSIVE SeqsUpTo(_, _)
SeqsUpTo(S, len) ==
    IF len = 0 THEN {<<>>}
    ELSE LET shorter == SeqsUpTo(S, len - 1)
         IN  shorter \cup {Append(s, x) : s \in {t \in shorter : Len(t) = len - 1}, x \in S}

Reactions ==
    [reactants : SeqsUpTo(SpeciesIdx, MaxArity),
     products  : SeqsUpTo(SpeciesIdx, MaxArity)]

\* ------------------------------------------------------------------------
\* _lhs / _rhs
\* ------------------------------------------------------------------------
\* for k in side: if j == k: stoich += 1
RECURSIVE CountLoop(_, _, _)
CountLoop(side, j, stoich) ==
    IF side = <<>> THEN stoich
    ELSE CountLoop(Tail(side), j, IF j = Head(side) THEN stoich + 1 ELSE stoich)

_rhs_NoMultiplicity(rxns) ==
    [i \in 1 .. Len(rxns) |->
        [j \in 1 .. _species_number |->
            IF \E k \in DOMAIN rxns[i].products : rxns[i].products[k] = j - 1
            THEN 1 ELSE 0]]

\* Rows are reactions, columns species; TLA+ sequences are 1-based, so
\* entry [i][j] of the code is entry [i+1][j+1] here.
_rhs(rxns) ==
    [i \in 1 .. Len(rxns) |->
        [j \in 1 .. _species_number |-> CountLoop(rxns[i].products, j - 1, 0)]]

_lhs(rxns) ==
    [i \in 1 .. Len(rxns) |->
        [j \in 1 .. _species_number |->
            CountLoop(rxns[i].reactants, j - 1, 0) * (-1)]]

MatAdd(a, b) ==
    [i \in 1 .. Len(a) |-> [j \in 1 .. Len(a[i]) |-> a[i][j] + b[i][j]]]

\* numpy .T of a (reactions x species) matrix: species x reactions
Transpose(m, ncols) ==
    [j \in 1 .. ncols |-> [i \in 1 .. Len(m) |-> m[i][j]]]

StoichInit ==
    /\ model_reactions = <<>>
    /\ stoich_pc = "model"
    /\ right_side = None
    /\ left_side = None
    /\ stoich_matrix = None

\* The model-equation layer appends one reaction to model.reactions.
AddReaction ==
    /\ stoich_pc = "model"
    /\ Len(model_reactions) < MaxRxn
    /\ \E r \in Reactions : model_reactions' = Append(model_reactions, r)
    /\ UNCHANGED <<stoich_pc, right_side, left_side, stoich_matrix, rateVars, genVars, icVars, simVars>>

\* _pysb_to_cuda, line 95, evaluated left to right: _rhs(model) ...
CallRhs ==
    /\ stoich_pc = "model"
    /\ right_side' = _rhs(model_reactions)
    /\ stoich_pc' = "rhs"
    /\ UNCHANGED <<model_reactions, left_side, stoich_matrix, rateVars, genVars, icVars, simVars>>

\* ... _lhs(model) ...
CallLhs ==
    /\ stoich_pc = "rhs"
    /\ left_side' = _lhs(model_reactions)
    /\ stoich_pc' = "lhs"
    /\ UNCHANGED <<model_reactions, right_side, stoich_matrix, rateVars, genVars, icVars, simVars>>

\* ... and the sum, transposed.
SumTranspose ==
    /\ stoich_pc = "lhs"
    /\ stoich_matrix' = Transpose(MatAdd(right_side, left_side), _species_number)
    /\ stoich_pc' = "done"
    /\ UNCHANGED <<model_reactions, right_side, left_side, rateVars, genVars, icVars, simVars>>

StoichNext == AddReaction \/ CallRhs \/ CallLhs \/ SumTranspose

\* ------------------------------------------------------------------------
\* Rate text (_pysb_to_cuda, lines 110-146)
\* ------------------------------------------------------------------------
\* The rate text is a sequence of lexical tokens of sympy.fcode's output:
\*   [t |-> "sp", i |-> 3]   the species symbol __s3
\*   [t |-> "num", i |-> 2]  the integer literal 2
\*   [t |-> "par", i |-> q]  the name of parameter q
\*   [t |-> "op", c |-> c]   the operator or bracket c
Sp(j) == [t |-> "sp", i |-> j]
Num(v) == [t |-> "num", i |-> v]
Par(q) == [t |-> "par", i |-> q]
Op(c) == [t |-> "op", c |-> c]

\* A rate is a product of factors: a parameter, a species, or an integer
\* power of a species.
Factors ==
    {<<Par(q)>> : q \in 0 .. (_parameter_number - 1)}
    \cup {<<Sp(j)>> : j \in SpeciesIdx}
    \cup {<<Sp(j), Op("**"), Num(p)>> : j \in SpeciesIdx, p \in 2 .. MaxPow}

RECURSIVE Product(_)
Product(fs) ==
    IF Len(fs) = 1 THEN fs[1]
    ELSE fs[1] \o <<Op("*")>> \o Product(Tail(fs))

RateTexts == {Product(fs) : fs \in SeqsUpTo(Factors, MaxFactors) \ {<<>>}}

\* pattern = "(__s\d+)\*\*(\d+)" matches at position i
PatternAt(text, i) ==
    /\ i + 2 <= Len(text)
    /\ text[i].t = "sp"
    /\ text[i + 1] = Op("**")
    /\ text[i + 2].t = "num"

\* re.findall(pattern, rate): the groups of the non-overlapping matches,
\* scanning left to right
RECURSIVE findall(_, _)
findall(text, i) ==
    IF i > Len(text) THEN <<>>
    ELSE IF PatternAt(text, i)
         THEN <<[s |-> text[i].i, p |-> text[i + 2].i]>> \o findall(text, i + 3)
         ELSE findall(text, i + 1)

\* re.sub(pattern, repl, rate): every match replaced by repl
RECURSIVE sub(_, _, _)
sub(repl, text, i) ==
    IF i > Len(text) THEN <<>>
    ELSE IF PatternAt(text, i)
         THEN repl \o sub(repl, text, i + 3)
         ELSE <<text[i]>> \o sub(repl, text, i + 1)

\* repl = m[0]; for i in range(1, int(m[1])): repl += "*(%s-%d)" % (m[0], i)
RECURSIVE ReplLoop(_, _, _)
ReplLoop(m, i, repl) ==
    IF i >= m.p THEN repl
    ELSE ReplLoop(m, i + 1,
                  repl \o <<Op("*"), Op("("), Sp(m.s), Op("-"), Num(i), Op(")")>>)

Repl(m) == ReplLoop(m, 1, <<Sp(m.s)>>)

\* for m in matches: ...; rate = re.sub(pattern, repl, rate)
RECURSIVE PowerLoop(_, _)
PowerLoop(matches, text) ==
    IF matches = <<>> THEN text
    ELSE PowerLoop(Tail(matches), sub(Repl(Head(matches)), text, 1))

ExpandPowers(text) == PowerLoop(findall(text, 1), text)

RateInit ==
    /\ rate_in \in RateTexts
    /\ rate = rate_in
    /\ rate_pc = "fcode"

\* lines 129-135
RewritePowers ==
    /\ rate_pc = "fcode"
    /\ rate' = ExpandPowers(rate)
    /\ rate_pc' = "powers"
    /\ UNCHANGED <<rate_in, stoichVars, genVars, icVars, simVars>>

RateNext == RewritePowers

\* ------------------------------------------------------------------------
\* Kernel-source generation: _pysb_to_cuda as it works on text
\* ------------------------------------------------------------------------
\* A text is a sequence of characters.  The model has no expressions and no
\* observables, so the loops of lines 113-127 do nothing.
MaxNames == 2      \* parameters of a model
MaxCalls == 2      \* calls of the generator on one model

Digits == <<"0", "1", "2", "3", "4", "5", "6", "7", "8", "9">>

IsDigit(c) == \E d \in DOMAIN Digits : Digits[d] = c

DigitValue(c) == CHOOSE v \in 0 .. 9 : Digits[v + 1] = c

\* \s
IsSpace(c) == c \in {" ", "\t", "\n"}

\* \w: the characters other than these are letters, digits or "_"
NonWord == {"*", "(", ")", "[", "]", ",", "-", "+", ";", "=", ".", " ", "\t", "\n"}

IsWord(c) == c \notin NonWord

\* repr(v), str(v), "%d" % v and "%s" % v of an integer
RECURSIVE repr(_)
repr(v) ==
    IF v < 0 THEN <<"-">> \o repr(0 - v)
    ELSE IF v < 10 THEN <<Digits[v + 1]>>
    ELSE repr(v \div 10) \o <<Digits[(v % 10) + 1]>>

\* int(text) of a run of digits
RECURSIVE int(_)
int(digs) ==
    IF digs = <<>> THEN 0
    ELSE int(SubSeq(digs, 1, Len(digs) - 1)) * 10 + DigitValue(digs[Len(digs)])

RECURSIVE DigitsEnd(_, _)
DigitsEnd(text, i) ==
    IF i <= Len(text) /\ IsDigit(text[i]) THEN DigitsEnd(text, i + 1) ELSE i

RECURSIVE UnderscoresEnd(_, _)
UnderscoresEnd(text, i) ==
    IF i <= Len(text) /\ text[i] = "_" THEN UnderscoresEnd(text, i + 1) ELSE i

StartsWith(text, i, word) ==
    /\ i + Len(word) - 1 <= Len(text)
    /\ SubSeq(text, i, i + Len(word) - 1) = word

\* sympy.fcode of a product of parameters and (powers of) species: fixed
\* form, six leading blanks.
NameOfFactor(f, names) ==
    IF f.t = "par" THEN names[f.i + 1]
    ELSE <<"_", "_", "s">> \o repr(f.i)
         \o (IF f.p > 1 THEN <<"*", "*">> \o repr(f.p) ELSE <<>>)

RECURSIVE JoinFactors(_, _)
JoinFactors(expr, names) ==
    IF Len(expr) = 1 THEN NameOfFactor(expr[1], names)
    ELSE NameOfFactor(expr[1], names) \o <<"*">> \o JoinFactors(Tail(expr), names)

fcode(expr, names) == <<" ", " ", " ", " ", " ", " ">> \o JoinFactors(expr, names)

\* pattern = "(__s\d+)\*\*(\d+)": where the match that starts at i ends
\* (one past its last character), 0 if there is none
PowerEnd(text, i) ==
    IF ~StartsWith(text, i, <<"_", "_", "s">>) THEN 0
    ELSE LET e1 == DigitsEnd(text, i + 3)
         IN  IF e1 = i + 3 \/ ~StartsWith(text, e1, <<"*", "*">>) THEN 0
             ELSE LET e2 == DigitsEnd(text, e1 + 2)
                  IN  IF e2 = e1 + 2 THEN 0 ELSE e2

\* the two groups of the match at i
PowerGroups(text, i) ==
    LET e1 == DigitsEnd(text, i + 3)
    IN  <<SubSeq(text, i, e1 - 1), SubSeq(text, e1 + 2, PowerEnd(text, i) - 1)>>

\* The scan of re.findall and re.sub: the leftmost position among starts,
\* 0 if there is none; the scan resumes where that match ends.
Leftmost(starts) ==
    IF starts = {} THEN 0 ELSE CHOOSE j \in starts : \A l \in starts : j <= l

\* matches = re.findall(pattern, rate)
RECURSIVE re_findall(_, _)
re_findall(text, i) ==
    LET j == Leftmost({l \in i .. Len(text) : PowerEnd(text, l) > 0})
    IN  IF j = 0 THEN <<>>
        ELSE <<PowerGroups(text, j)>> \o re_findall(text, PowerEnd(text, j))

\* re.sub(pattern, repl, rate)
RECURSIVE re_sub(_, _, _)
re_sub(repl, text, i) ==
    LET j == Leftmost({l \in i .. Len(text) : PowerEnd(text, l) > 0})
    IN  IF j = 0 THEN SubSeq(text, i, Len(text))
        ELSE SubSeq(text, i, j - 1) \o repl \o re_sub(repl, text, PowerEnd(text, j))

\* repl = m[0]; for i in range(1, int(m[1])): repl += "*(%s-%d)" % (m[0], i)
RECURSIVE repl_loop(_, _, _)
repl_loop(m, i, repl) ==
    IF i >= int(m[2]) THEN repl
    ELSE repl_loop(m, i + 1,
                   repl \o <<"*", "(">> \o m[1] \o <<"-">> \o repr(i) \o <<")">>)

\* The value of a block whose last statement leaves it in the one-element
\* set outs; each statement works on the value the one before it left.
Value(outs) == CHOOSE out \in outs : TRUE

\* for m in matches: ...; rate = re.sub(pattern, repl, rate)
RECURSIVE matches_loop(_, _)
matches_loop(matches, text) ==
    IF matches = <<>> THEN text
    ELSE Value({matches_loop(Tail(matches), t) :
                  t \in {re_sub(repl_loop(Head(matches), 1, Head(matches)[1]), text, 1)}})

\* line 137: re.sub(r'_*s(\d+)', lambda m: 'y[%s]' % int(m.group(1)), rate);
\* the pattern has no word boundary
SpeciesEnd(text, i) ==
    LET u == UnderscoresEnd(text, i)
        e == DigitsEnd(text, u + 1)
    IN  IF u <= Len(text) /\ text[u] = "s" /\ e > u + 1 THEN e ELSE 0

RECURSIVE sub_species(_, _)
sub_species(text, i) ==
    LET j == Leftmost({l \in i .. Len(text) : SpeciesEnd(text, l) > 0})
        u == UnderscoresEnd(text, j)
        e == SpeciesEnd(text, j)
    IN  IF j = 0 THEN SubSeq(text, i, Len(text))
        ELSE SubSeq(text, i, j - 1)
                 \o <<"y", "[">> \o repr(int(SubSeq(text, u + 1, e - 1))) \o <<"]">>
                 \o sub_species(text, e)

\* 'tex2D(param_tex,%s,tid)' % q
tex2D(q) ==
    <<"t", "e", "x", "2", "D", "(", "p", "a", "r", "a", "m", "_", "t", "e", "x", ",">> \o repr(q) \o
    <<",", "t", "i", "d", ")">>

\* \b(prm)\b matches at i
WordAt(text, i, prm) ==
    /\ StartsWith(text, i, prm)
    /\ i = 1 \/ ~IsWord(text[i - 1])
    /\ i + Len(prm) > Len(text) \/ ~IsWord(text[i + Len(prm)])

\* line 140: re.sub(r'\b(%s)\b' % prm, 'tex2D(param_tex,%s,tid)' % q, rate)
RECURSIVE sub_param(_, _, _, _)
sub_param(text, i, prm, q) ==
    LET j == Leftmost({l \in i .. Len(text) : WordAt(text, l, prm)})
    IN  IF j = 0 THEN SubSeq(text, i, Len(text))
        ELSE SubSeq(text, i, j - 1) \o tex2D(q) \o sub_param(text, j + Len(prm), prm, q)

\* for q, prm in enumerate(params_names): ...
RECURSIVE params_loop(_, _, _)
params_loop(text, names, q) ==
    IF q >= Len(names) THEN text
    ELSE Value({params_loop(t, names, q + 1) : t \in {sub_param(text, 1, names[q + 1], q)}})

\* line 143: re.sub('d0', '', rate)
RECURSIVE sub_d0(_, _)
sub_d0(text, i) ==
    LET j == Leftmost({l \in i .. Len(text) : StartsWith(text, l, <<"d", "0">>)})
    IN  IF j = 0 THEN SubSeq(text, i, Len(text))
        ELSE SubSeq(text, i, j - 1) \o sub_d0(text, j + 2)

\* line 144: p.sub('', rate), p = re.compile('\s')
sub_space(text) == SelectSeq(text, LAMBDA c : ~IsSpace(c))

\* line 145: rate.replace('pow', 'powf')
RECURSIVE replace_pow(_, _)
replace_pow(text, i) ==
    LET j == Leftmost({l \in i .. Len(text) : StartsWith(text, l, <<"p", "o", "w">>)})
    IN  IF j = 0 THEN SubSeq(text, i, Len(text))
        ELSE SubSeq(text, i, j - 1) \o <<"p", "o", "w", "f">> \o replace_pow(text, j + 3)

\* lines 129-145 on the rate text of one reaction
rewrite_rate(text, names) ==
    LET powers == {matches_loop(re_findall(t, 1), t) : t \in {text}}
        species == {sub_species(t, 1) : t \in powers}
        params == {params_loop(t, names, 0) : t \in species}
        nod0 == {sub_d0(t, 1) : t \in params}
        nospace == {sub_space(t) : t \in nod0}
    IN  Value({replace_pow(t, 1) : t \in nospace})

\* lines 111-146: "\th[%s] = " % repr(n), the rewritten rate, ";\n"
hazard_line(k, rxn, names) ==
    <<"\t", "h", "[">> \o repr(k) \o <<"]", " ", "=", " ">>
        \o rewrite_rate(fcode(rxn.rate, names), names) \o <<";", "\n">>

\* for n, rxn in enumerate(self._model.reactions): hazards_string += ...
RECURSIVE hazards_loop(_, _, _, _)
hazards_loop(rxns, names, k, acc) ==
    IF k >= Len(rxns) THEN acc
    ELSE hazards_loop(rxns, names, k + 1, acc \o hazard_line(k, rxns[k + 1], names))

\* lines 101-107; m is stoich_matrix (species x reactions), i runs over the
\* reactions and j over the species
RECURSIVE stoich_inner(_, _, _, _)
stoich_inner(m, i, j, acc) ==
    IF j >= Len(m) THEN acc \o <<"\n">>
    ELSE stoich_inner(m, i, j + 1,
            acc \o <<"\t">> \o repr(m[j + 1][i + 1])
                \o (IF ~(i = Len(m) - 1 /\ j = Len(m[1]) - 1) THEN <<",">> ELSE <<>>))

RECURSIVE stoich_loop(_, _, _)
stoich_loop(m, i, acc) ==
    IF i >= Len(m[1]) THEN acc
    ELSE stoich_loop(m, i + 1, stoich_inner(m, i, 0, acc))

\* The template file is not among the sources: its text is stood for by the
\* order of its replacement fields, each field preceded by a marker.
template_code == <<"n_species", "n_params", "n_reactions", "hazards", "stoch">>

RECURSIVE format(_, _)
format(template, fields) ==
    IF template = <<>> THEN <<>>
    ELSE <<"{">> \o fields[Head(template)] \o <<"}">> \o format(Tail(template), fields)

\* The text the generator returns for a model, computed as the code does.
cs_string(mdl, stoich, hazards) ==
    format(template_code,
           [n_species |-> repr(_species_number),
            n_params |-> repr(Len(mdl.parameters)),
            n_reactions |-> repr(Len(mdl.reactions)),
            hazards |-> hazards,
            stoch |-> stoich])

\* ---- the models the generator is run on
NamePool == {<<"k">>, <<"k", "s", "1">>, <<"k", "d", "0">>, <<"k", "p", "o", "w">>}

Injective(seq) == \A a, b \in DOMAIN seq : seq[a] = seq[b] => a = b

ParameterLists == {l \in SeqsUpTo(NamePool, MaxNames) : l # <<>> /\ Injective(l)}

\* Mass-action rates: a parameter, times a power of the first species or
\* not, times a power of the second species or not.
SpeciesPowers(j) ==
    {<<>>} \cup {<<[t |-> "sp", i |-> j, p |-> e]>> : e \in 1 .. MaxPow}

GenRates(np) ==
    {<<[t |-> "par", i |-> q, p |-> 1]>> \o a \o b :
        q \in 0 .. (np - 1), a \in SpeciesPowers(0), b \in SpeciesPowers(1)}

\* The reaction A -> B with any rate, and possibly the reverse reaction
\* B -> A with rate (first parameter) * __s1.
GenModels ==
    {[parameters |-> names,
      reactions |-> <<[reactants |-> <<0>>, products |-> <<1>>, rate |-> r]>> \o back] :
        names \in ParameterLists,
        r \in GenRates(MaxNames),
        back \in {<<>>, <<[reactants |-> <<1>>, products |-> <<0>>,
                          rate |-> <<[t |-> "par", i |-> 0, p |-> 1],
                                     [t |-> "sp", i |-> 1, p |-> 1]>>]>>}}

GenInit ==
    /\ gen_model \in {g \in GenModels :
          \A k \in DOMAIN g.reactions : \A f \in DOMAIN g.reactions[k].rate :
              g.reactions[k].rate[f].t = "par" =>
                  g.reactions[k].rate[f].i < Len(g.parameters)}
    /\ stoich_string = <<>>
    /\ hazards_string = <<>>
    /\ codes = <<>>

\* A generator that takes the reactions off the model as it writes them.
_pysb_to_cuda_Consumes ==
    /\ Len(codes) < MaxCalls
    /\ LET m == Transpose(MatAdd(_rhs(gen_model.reactions), _lhs(gen_model.reactions)),
                          _species_number)
           s == IF Len(gen_model.reactions) = 0 THEN <<>> ELSE stoich_loop(m, 0, <<>>)
           h == hazards_loop(gen_model.reactions, gen_model.parameters, 0, <<>>)
       IN  /\ stoich_string' = s
           /\ hazards_string' = h
           /\ codes' = Append(codes, cs_string(gen_model, stoich_string', hazards_string'))
    /\ gen_model' = [gen_model EXCEPT !.reactions =
                        SubSeq(gen_model.reactions, 1, Len(gen_model.reactions) - 1)]
    /\ UNCHANGED <<stoichVars, rateVars, icVars, simVars>>

\* One call of _pysb_to_cuda (lines 90-154): it reads the model, builds its
\* two strings from '' and returns the formatted template; it assigns no
\* attribute of the simulator and changes nothing of the model.
_pysb_to_cuda ==
    /\ Len(codes) < MaxCalls
    /\ LET m == Transpose(MatAdd(_rhs(gen_model.reactions), _lhs(gen_model.reactions)),
                          _species_number)
           s == stoich_loop(m, 0, <<>>)
           h == hazards_loop(gen_model.reactions, gen_model.parameters, 0, <<>>)
       IN  /\ stoich_string' = s
           /\ hazards_string' = h
           /\ codes' = Append(codes, cs_string(gen_model, stoich_string', hazards_string'))
    /\ UNCHANGED <<gen_model, stoichVars, rateVars, icVars, simVars>>

GenNext == _pysb_to_cuda

\* ------------------------------------------------------------------------
\* The simulator: inputs of a run
\* ------------------------------------------------------------------------
MaxSims == 3       \* trajectories of one run
MaxT == 3          \* points of the time grid

SignatureThreads == 32     \* run(..., threads=32)
DefaultThreads == 128      \* if threads is None: self._threads = 128
RequestedThreads == {1, 2}

\* An argument or attribute that may be Python's None.
NoneValue == [none |-> TRUE]
Some(v) == [none |-> FALSE, v |-> v]

\* threads: a requested size, the signature's default, or None
ThreadArgs == {Some(t) : t \in RequestedThreads \cup {SignatureThreads}} \cup {NoneValue}

\* An ascending time grid of T points.
TimeGrid(T) == [k \in 1 .. T |-> 2 * (k - 1)]

\* Per-trajectory parameter vectors, distinct from row to row unless p = 0.
ParamMatrix(ns, p) == [i \in 1 .. ns |-> [q \in 1 .. _parameter_number |-> p * i]]

\* Per-trajectory initial states, distinct from row to row.
InitialsMatrix(ns, a) == [i \in 1 .. ns |-> <<a, i - 1>>]

\* The shapes a caller may hand in.  Nothing in run or run_one_step looks at
\* the shape of param_values or initials before the buffers are filled.
\*   "short"   the last parameter row lacks its last column
\*   "narrow"  every initial-state row lacks its last column
\*   "long"    the initial-state matrix has one row more than param_values
Shapes == {<<"full", "full">>, <<"short", "full">>, <<"full", "narrow">>,
           <<"full", "long">>}

DropLast(row) == SubSeq(row, 1, Len(row) - 1)

ParamShaped(m, shape) ==
    IF shape = "short" THEN [m EXCEPT ![Len(m)] = DropLast(m[Len(m)])] ELSE m

InitialsShaped(m, shape) ==
    IF shape = "narrow" THEN [i \in 1 .. Len(m) |-> DropLast(m[i])]
    ELSE IF shape = "long" THEN Append(m, <<1, 1>>)
    ELSE m

\* A call: given tells which of param_values and initials the caller
\* passed; one left out is None and is written <<>> here.  number_sim is
\* read only when param_values is left out.
CallArgs ==
    {[tspan |-> TimeGrid(T),
      param_values |-> ParamShaped(ParamMatrix(ns, p), sh[1]),
      initials |-> InitialsShaped(InitialsMatrix(ns, a), sh[2]),
      threads |-> th,
      number_sim |-> 1,
      given |-> <<TRUE, TRUE>>] :
        T \in 1 .. MaxT, ns \in 1 .. MaxSims, p \in 0 .. 1, a \in 1 .. 2,
        th \in ThreadArgs, sh \in Shapes}

\* Calls that leave out initials, or param_values and initials.
DefaultCalls ==
    {[tspan |-> TimeGrid(T),
      param_values |-> IF g THEN ParamMatrix(ns, p) ELSE <<>>,
      initials |-> <<>>,
      threads |-> th,
      number_sim |-> ns,
      given |-> <<g, FALSE>>] :
        T \in 1 .. MaxT, ns \in 1 .. MaxSims, p \in 0 .. 1, th \in ThreadArgs,
        g \in BOOLEAN}

\* numpy's broadcasting of "final_result[:, 0, :] = start_array" (run, line
\* 353): the value needs as many rows as the slice, or one, each of as many
\* columns as the slice, or one; anything else is a ValueError.
Broadcasts(value, rows, cols) ==
    /\ Len(value) \in {rows, 1}
    /\ \A i \in 1 .. Len(value) : Len(value[i]) \in {cols, 1}

Broadcast(value, rows, cols) ==
    [i \in 1 .. rows |->
        LET row == IF Len(value) = 1 THEN value[1] ELSE value[i]
        IN  [j \in 1 .. cols |-> IF Len(row) = 1 THEN row[1] ELSE row[j]]]

Zeros(rows, cols) == [i \in 1 .. rows |-> [j \in 1 .. cols |-> 0]]

\* ------------------------------------------------------------------------
\* Launch geometry (run: lines 335-345, run_one_step: lines 287-297)
\* ------------------------------------------------------------------------
ThreadCount(threads) == IF threads.none THEN DefaultThreads ELSE threads.v

BlockCount_Floor(n_sims, threads) == n_sims \div threads

BlockCount(n_sims, threads) ==
    IF n_sims % threads = 0
    THEN n_sims \div threads
    ELSE n_sims \div threads + 1

\* ------------------------------------------------------------------------
\* _setup's parameter table and _create_gpu_init
\* ------------------------------------------------------------------------
\* Entry (i, j) is copied unless an IndexError ended the loops before it:
\* the try block encloses both loops, which run in row-major order.
Copied(params, i, j) ==
    /\ i <= Len(params)
    /\ \A i2 \in 1 .. i : \A j2 \in 1 .. _parameter_number :
          (i2 < i \/ j2 <= j) => j2 <= Len(params[i2])

HostParam(params, total) ==
    [i \in 1 .. total |->
        [j \in 1 .. _parameter_number |->
            IF Copied(params, i, j) THEN params[i][j] ELSE 0]]

\* _create_gpu_init raises IndexError for an initials matrix that does not
\* fit the species matrix.
InitialsFit(initials, total) ==
    /\ Len(initials) <= total
    /\ \A i \in 1 .. Len(initials) : Len(initials[i]) >= _species_number

\* A species matrix whose rows past the initial states repeat the last one.
_create_gpu_init_Tiled(initials, total) ==
    [i \in 1 .. total |->
        [j \in 1 .. _species_number |->
            IF i <= Len(initials) THEN initials[i][j]
            ELSE initials[Len(initials)][j]]]

_create_gpu_init(initials, total) ==
    [i \in 1 .. total |->
        [j \in 1 .. _species_number |->
            IF i <= Len(initials) THEN initials[i][j] ELSE 0]]

\* ------------------------------------------------------------------------
\* The kernels (pycuda_templates/gillespie_template.cu is not among the
\* sources; modelled from the specification, for the reaction A -> B with
\* hazard k * A)
\* ------------------------------------------------------------------------
Seeds == 0 .. 1
AddressModes == {"clamp", "border"}

\* The draw of thread tid in a launch seeded with seed.
Draw(seed, tid) == (seed + tid) % 2

\* tex2D(param_tex, q, tid); outside the table the address mode decides.
TexRead(tex, q, tid, amode) ==
    IF tid <= Len(tex) THEN tex[tid][q]
    ELSE IF amode = "clamp" /\ Len(tex) > 0 THEN tex[Len(tex)][q]
    ELSE 0

Hazard(y, k) == k * y[1]

\* A step that fires on the draw alone.
OneStep_FiresAtZero(y, k, d) ==
    IF d = 1 THEN <<y[1] - 1, y[2] + 1>> ELSE y

\* One reporting interval of one trajectory: a zero hazard fires nothing.
OneStep(y, k, d) ==
    IF Hazard(y, k) > 0 /\ d = 1 THEN <<y[1] - 1, y[2] + 1>> ELSE y

\* The trajectory's clock at the end of the interval.
Clock(y, k, d, end_time) ==
    IF Hazard(y, k) > 0 THEN end_time + d ELSE end_time

Gillespie_one_step(species, tex, n_sims, end_time, seed, amode) ==
    [result |->
        [tid \in 1 .. Len(species) |->
            OneStep(species[tid], TexRead(tex, 1, tid, amode), Draw(seed, tid))],
     last_time |->
        [tid \in 1 .. n_sims |->
            Clock(species[tid], TexRead(tex, 1, tid, amode), Draw(seed, tid),
                  end_time)]]

\* A trajectory whose first interval takes the draw of the second.
RECURSIVE Trajectory_ShiftedDraws(_, _, _, _, _)
Trajectory_ShiftedDraws(y, k, seed, tid, slots) ==
    IF slots = 1 THEN <<y>>
    ELSE <<y>> \o Trajectory_ShiftedDraws(OneStep(y, k, Draw(seed + 1, tid)), k,
                                           seed + 1, tid, slots - 1)

RECURSIVE Trajectory(_, _, _, _, _)
Trajectory(y, k, seed, tid, slots) ==
    IF slots = 1 THEN <<y>>
    ELSE <<y>> \o Trajectory(OneStep(y, k, Draw(seed, tid)), k, seed + 1, tid,
                             slots - 1)

Gillespie_all_steps(species, tex, n_results, seed, amode) ==
    [tid \in 1 .. Len(species) |->
        Trajectory(species[tid], TexRead(tex, 1, tid, amode), seed, tid, n_results)]

\* ------------------------------------------------------------------------
\* SimulationResult.__init__(self, simulator, trajectories)
\* ------------------------------------------------------------------------
SimulationResult_formals == <<"simulator", "trajectories">>

\* Python's binding of a call's positional and keyword arguments.
BindError(pos, kw) ==
    \/ Len(pos) > Len(SimulationResult_formals)
    \/ \E name \in DOMAIN kw :
          \A f \in DOMAIN SimulationResult_formals :
              SimulationResult_formals[f] # name
    \/ \E f \in DOMAIN SimulationResult_formals :
          /\ f <= Len(pos)
          /\ SimulationResult_formals[f] \in DOMAIN kw
    \/ \E f \in DOMAIN SimulationResult_formals :
          /\ f > Len(pos)
          /\ SimulationResult_formals[f] \notin DOMAIN kw

Bound(pos, kw, f) ==
    IF f <= Len(pos) THEN pos[f] ELSE kw[SimulationResult_formals[f]]

Raise(exc) == [kind |-> "raise", exc |-> exc]

SimulationResult(pos, kw) ==
    IF BindError(pos, kw) THEN Raise("TypeError")
    ELSE LET simulator == Bound(pos, kw, 1)
             trajectories == Bound(pos, kw, 2)
             nsims == Len(trajectories)
         IN  \* len(self.tout[n]) for n in range(self.nsims)
             IF nsims > 0 /\ simulator.tout.none THEN Raise("TypeError")
             ELSE IF nsims > 0 /\ nsims > Len(simulator.tout.v) THEN Raise("IndexError")
             ELSE [kind |-> "return",
                   value |-> [simulator |-> simulator.class,
                              tout |-> simulator.tout,
                              _y |-> trajectories,
                              nsims |-> nsims]]

\* The simulator as SimulationResult reads it: self.tout is set to None by
\* the constructor and never assigned again.
Self == [class |-> "GPUSimulator", tout |-> NoneValue]

DeviceErrors == {"CompileError", "LaunchError", "SyncError"}

\* ------------------------------------------------------------------------
\* The base class: the attributes _params and _initials, and initials_list
\* (base.py, lines 81-194)
\* ------------------------------------------------------------------------
MaxAmount == 2     \* largest amount of a species and value of a parameter

\* What an attribute holds when it is not None: a numpy array or a dict.
Ndarray(v) == [none |-> FALSE, type |-> "ndarray", v |-> v]
Dict(v) == [none |-> FALSE, type |-> "dict", v |-> v]

\* [p.value for p in self._model.parameters]
nominal_values == <<1>>

\* The param_values property (lines 156-173) when no dictionary was stored.
param_values == IF _params.none THEN nominal_values ELSE _params.v

\* model.get_species_index(cp): the 0-based index, None for a pattern that
\* is no species of the model.
get_species_index(cp) ==
    IF \E si \in DOMAIN model_species : model_species[si] = cp
    THEN Some((CHOOSE si \in DOMAIN model_species : model_species[si] = cp) - 1)
    ELSE NoneValue

\* _set_initials (lines 127-146) on the array y: an entry that is not 0 is
\* taken to be set already and is skipped.  The model has no expressions.
RECURSIVE _set_initials(_, _, _)
_set_initials(y, initials_source, param_vals) ==
    IF initials_source = <<>> THEN [kind |-> "return", value |-> y]
    ELSE LET cp == Head(initials_source)[1]
             value_obj == Head(initials_source)[2]
             si == get_species_index(cp)
             value == IF value_obj.t = "num" THEN value_obj.i
                      ELSE param_vals[value_obj.i + 1]
         IN  IF si.none THEN Raise("IndexError")
             ELSE IF y[si.v + 1] # 0
                  THEN _set_initials(y, Tail(initials_source), param_vals)
                  ELSE _set_initials([y EXCEPT ![si.v + 1] = value],
                                     Tail(initials_source), param_vals)

\* ---- the simulators and models initials_list is read on
Amounts == 0 .. MaxAmount

\* An override is a number or a parameter of the model.
ValueObjs == {Num(v) : v \in Amounts} \cup {Par(0)}

Entry(cp, values) == {<<>>} \cup {<<<<cp, v>>>> : v \in values}

\* The items of a dictionary of overrides, in the order the dictionary
\* yields them; "X" is a pattern that is no species of the model.
OverrideItems ==
    {a \o b \o x : a \in Entry("A", ValueObjs), b \in Entry("B", ValueObjs),
                   x \in Entry("X", {Num(1)})}

\* model.initial_conditions: each species at most once, its amount a
\* parameter of the model.
ModelInitials ==
    {a \o b : a \in Entry("A", {Par(0)}), b \in Entry("B", {Par(0)})}
        \cup {b \o a : a \in Entry("A", {Par(0)}), b \in Entry("B", {Par(0)})}

InitialsInit ==
    /\ \/ _initials = NoneValue
       \/ \E o \in OverrideItems : _initials = Dict(o)
       \/ \E a, b \in Amounts : _initials = Ndarray(<<a, b>>)
    /\ _params \in {NoneValue} \cup {Ndarray(<<v>>) : v \in Amounts}
    /\ initial_conditions \in ModelInitials
    /\ y0 = None
    /\ ic_pc = "call"

\* initials_list (lines 111-154): the stored array if there is one, else
\* zeros filled from the overrides first and from the model after them.
initials_list ==
    /\ ic_pc = "call"
    /\ y0' = IF ~_initials.none /\ _initials.type = "ndarray"
             THEN [kind |-> "return", value |-> _initials.v]
             ELSE LET zeros == [si \in 1 .. _species_number |-> 0]
                      overridden ==
                          IF ~_initials.none /\ _initials.type = "dict"
                          THEN _set_initials(zeros, _initials.v, param_values)
                          ELSE [kind |-> "return", value |-> zeros]
                  IN  IF overridden.kind = "raise" THEN overridden
                      ELSE _set_initials(overridden.value, initial_conditions,
                                         param_values)
    /\ ic_pc' = "returned"
    /\ UNCHANGED <<initial_conditions, stoichVars, rateVars, genVars, simVars>>

InitialsNext == initials_list

\* The param_values setter (lines 175-194) for an array: its len is the
\* number of its rows.
set_param_values(new_params) ==
    IF Len(new_params) # Len(model_parameters) THEN Raise("ValueError")
    ELSE [kind |-> "return", value |-> Ndarray(new_params)]

\* The initials setter (lines 88-109) for an array.
set_initials(new_initials) ==
    IF Len(new_initials) # Len(model_species) THEN Raise("ValueError")
    ELSE [kind |-> "return", value |-> Ndarray(new_initials)]

\* gpu_ssa.py, run, lines 321-324: zeros, and int(ic[1].value) for every
\* initial condition of the model.
RECURSIVE species_initials(_, _)
species_initials(ics, initials) ==
    IF ics = <<>> THEN initials
    ELSE species_initials(
             Tail(ics),
             [initials EXCEPT ![get_species_index(Head(ics)[1]).v + 1] =
                                  nominal_values[Head(ics)[2].i + 1]])

\* gpu_ssa.py, run, lines 309-326 (run_one_step, lines 262-279) for the
\* call c: the locals param_values and initials, what the setters stored,
\* and whether one of them raised.
Defaults(c) ==
    LET built == [i \in 1 .. c.number_sim |-> nominal_values]
        params == IF c.given[1] THEN c.param_values ELSE built
        stored_p == set_param_values(params)
        p_raised == ~c.given[1] /\ stored_p.kind = "raise"
        repeated == [i \in 1 .. Len(params) |->
                        species_initials(initial_conditions,
                                         [j \in 1 .. _species_number |-> 0])]
        inits == IF c.given[2] \/ p_raised THEN c.initials ELSE repeated
        stored_i == set_initials(inits)
        i_raised == ~p_raised /\ ~c.given[2] /\ stored_i.kind = "raise"
    IN  [param_values |-> params,
         initials |-> inits,
         _params |-> IF c.given[1] \/ p_raised THEN _params ELSE stored_p.value,
         _initials |-> IF c.given[2] \/ p_raised \/ i_raised THEN _initials
                       ELSE stored_i.value,
         raised |-> p_raised \/ i_raised]

\* ------------------------------------------------------------------------
\* GPUSimulator: construction and runs
\* ------------------------------------------------------------------------
NoRun ==
    /\ mode = None /\ args = None /\ n = 0
    /\ start_time = None /\ start_array = None /\ final_result = None
    /\ dev = None /\ outstanding = 0 /\ result = None /\ returned = None
    /\ held = {} /\ compile_calls = 0 /\ device_error = None
    /\ launch_log = <<>> /\ return_log = <<>>

\* GPUSimulator.__init__
SimInit ==
    /\ _step_0 = TRUE
    /\ _kernel = None
    /\ _param_tex = NoneValue
    /\ _threads = None
    /\ _blocks = None
    /\ _total_threads = 0
    /\ pc = "idle"
    /\ compiles = 0
    /\ NoRun

n_simulations == Len(args.param_values)
len_time == Len(args.tspan)

\* An exception leaves the call: nothing is returned.
Raises(exc) ==
    /\ returned' = Raise(exc)
    /\ pc' = "returned"

\* The locals of a call once lines 309-326 have run.
Resolved(c) ==
    [c EXCEPT !.param_values = Defaults(c).param_values,
              !.initials = Defaults(c).initials]

\* run, lines 306-355: the defaults and their setters, the geometry, the
\* result array, the first start state and start times; enumerate's n = 0
\* is skipped by the continue.  A setter that raises ends the call before
\* line 328.  The call is one of calls.
run_of(calls) ==
    /\ pc = "idle"
    /\ \E c \in calls :
        LET a == Resolved(c)
        IN  /\ args' = a
            /\ _params' = Defaults(c)._params
            /\ _initials' = Defaults(c)._initials
            /\ IF Defaults(c).raised
               THEN /\ Raises("ValueError")
                    /\ UNCHANGED <<_threads, _blocks, _total_threads,
                                   start_array, final_result, start_time>>
               ELSE /\ _threads' = ThreadCount(a.threads)
                    /\ _blocks' = BlockCount(Len(a.param_values), ThreadCount(a.threads))
                    /\ _total_threads' =
                          BlockCount(Len(a.param_values), ThreadCount(a.threads))
                              * ThreadCount(a.threads)
                    /\ start_array' = a.initials
                    /\ IF Broadcasts(a.initials, Len(a.param_values), _species_number)
                       THEN /\ final_result' =
                                 [i \in 1 .. Len(a.param_values) |->
                                     [k \in 1 .. Len(a.tspan) |->
                                         IF k = 1
                                         THEN Broadcast(a.initials, Len(a.param_values),
                                                        _species_number)[i]
                                         ELSE [j \in 1 .. _species_number |-> 0]]]
                            /\ start_time' = [i \in 1 .. Len(a.param_values) |-> a.tspan[1]]
                            /\ pc' = "loop"
                            /\ UNCHANGED returned
                       ELSE /\ final_result' =
                                 [i \in 1 .. Len(a.param_values) |->
                                     Zeros(Len(a.tspan), _species_number)]
                            /\ UNCHANGED start_time
                            /\ Raises("ValueError")
    /\ mode' = "run"
    /\ n' = 1
    /\ UNCHANGED <<otherVars, _step_0, _kernel, _param_tex, dev, outstanding, result,
                   held, histVars>>

\* run with every matrix passed, and run with initials, or param_values and
\* initials, left out.
run == run_of(CallArgs)
run_defaults == run_of(DefaultCalls)

\* run_one_step, lines 259-298.  The call is one of calls.
run_one_step_of(calls) ==
    /\ pc = "idle"
    /\ \E c \in calls :
        LET a == Resolved(c)
        IN  /\ args' = a
            /\ _params' = Defaults(c)._params
            /\ _initials' = Defaults(c)._initials
            /\ IF Defaults(c).raised
               THEN /\ Raises("ValueError")
                    /\ UNCHANGED <<_threads, _blocks, _total_threads>>
               ELSE /\ _threads' = ThreadCount(a.threads)
                    /\ _blocks' =
                          BlockCount(Len(a.param_values), ThreadCount(a.threads))
                    /\ _total_threads' =
                          BlockCount(Len(a.param_values), ThreadCount(a.threads))
                              * ThreadCount(a.threads)
                    /\ pc' = "enter"
                    /\ UNCHANGED returned
    /\ mode' = "run_one_step"
    /\ UNCHANGED <<otherVars, _step_0, _kernel, _param_tex, n, start_time, start_array,
                   final_result, dev, outstanding, result, held, histVars>>

run_one_step == run_one_step_of(CallArgs)
run_one_step_defaults == run_one_step_of(DefaultCalls)

\* The device allocations of one call of _run (lines 194-206) and of
\* _run_all (lines 237-247).  Neither function, nor run or run_one_step,
\* frees one or encloses them in try/finally or a with block: an allocation
\* lives as long as an object refers to it.
_run_buffers == {"species_matrix_gpu", "result", "start_time_gpu", "last_time_gpu"}
_run_all_buffers == {"species_matrix_gpu", "result", "time_points_gpu"}

\* The allocations named names made for interval k.
Allocated(names, k) == {[name |-> b, interval |-> k] : b \in names}

\* _setup without its last line: the first-run flag stays set.
_setup_StaysFirstRun ==
    /\ \/ mode = "run" /\ pc = "loop" /\ n < len_time
       \/ mode = "run_one_step" /\ pc = "enter"
    /\ _step_0
    /\ _kernel' = "SourceModule"
    /\ compiles' = compiles + 1
    /\ compile_calls' = compile_calls + 1
    /\ _param_tex' = Some(HostParam(args.param_values, _total_threads))
    /\ pc' = "alloc"
    /\ UNCHANGED <<otherVars, baseFields, _step_0, _threads, _blocks, _total_threads, mode, args,
                   n, start_time, start_array, final_result, dev, outstanding,
                   result, returned, held, device_error, launch_log, return_log>>

\* _setup clearing the first-run flag before it compiles.
_setup_FlagFirst ==
    /\ \/ mode = "run" /\ pc = "loop" /\ n < len_time
       \/ mode = "run_one_step" /\ pc = "enter"
    /\ _step_0
    /\ \E compiled \in BOOLEAN :
        IF compiled
        THEN /\ _kernel' = "SourceModule"
             /\ compiles' = compiles + 1
             /\ _param_tex' = Some(HostParam(args.param_values, _total_threads))
             /\ _step_0' = FALSE
             /\ pc' = "alloc"
             /\ UNCHANGED returned
        ELSE /\ Raises("CompileError")
             /\ _step_0' = FALSE
             /\ UNCHANGED <<_kernel, compiles, _param_tex>>
    /\ compile_calls' = compile_calls + 1
    /\ UNCHANGED <<otherVars, baseFields, _threads, _blocks, _total_threads, mode, args, n, start_time,
                   start_array, final_result, dev, outstanding, result, held,
                   device_error, launch_log, return_log>>

\* _run, lines 183-187, and _run_all, lines 227-228: the first call
\* compiles the kernel and uploads the parameters (_setup, _compile,
\* compile_ssa); the compiler may reject the source.
_setup ==
    /\ \/ mode = "run" /\ pc = "loop" /\ n < len_time
       \/ mode = "run_one_step" /\ pc = "enter"
    /\ _step_0
    /\ \E compiled \in BOOLEAN :
        IF compiled
        THEN /\ _kernel' = "SourceModule"
             /\ compiles' = compiles + 1
             /\ _param_tex' = Some(HostParam(args.param_values, _total_threads))
             /\ _step_0' = FALSE
             /\ pc' = "alloc"
             /\ UNCHANGED returned
        ELSE /\ Raises("CompileError")
             /\ UNCHANGED <<_kernel, compiles, _param_tex, _step_0>>
    /\ compile_calls' = compile_calls + 1
    /\ UNCHANGED <<otherVars, baseFields, _threads, _blocks, _total_threads, mode, args, n, start_time,
                   start_array, final_result, dev, outstanding, result, held,
                   device_error, launch_log, return_log>>

\* The same lines on a simulator that has been set up.
SkipSetup ==
    /\ \/ mode = "run" /\ pc = "loop" /\ n < len_time
       \/ mode = "run_one_step" /\ pc = "enter"
    /\ ~_step_0
    /\ pc' = "alloc"
    /\ UNCHANGED <<otherVars, baseFields, simFields, mode, args, n, start_time, start_array,
                   final_result, dev, outstanding, result, returned, held, histVars>>

\* _run with the launch inside try/except: a failed launch is passed over
\* and the run goes on.
_run_launch_Swallows ==
    /\ mode = "run" /\ pc = "alloc"
    /\ LET species_matrix == _create_gpu_init(start_array, _total_threads)
       IN  IF ~InitialsFit(start_array, _total_threads)
           THEN Raises("IndexError")
                /\ UNCHANGED <<dev, outstanding, launch_log, held, device_error>>
           ELSE \E launched \in BOOLEAN :
               /\ held' = held \cup Allocated(_run_buffers, n)
               /\ dev' = [kernel |-> "Gillespie_one_step",
                          species_matrix_gpu |-> species_matrix,
                          result |-> Zeros(_total_threads, _species_number),
                          start_time_gpu |-> start_time,
                          end_time |-> args.tspan[n + 1],
                          last_time_gpu |-> [i \in 1 .. n_simulations |-> 0],
                          param_tex |-> _param_tex.v,
                          seed |-> 0,
                          amode |-> "clamp",
                          block |-> _threads,
                          grid |-> _blocks]
               /\ IF launched
                  THEN /\ outstanding' = outstanding + 1
                       /\ launch_log' = Append(launch_log,
                             [kernel |-> "Gillespie_one_step",
                              end_time |-> args.tspan[n + 1],
                              start_state |-> SubSeq(species_matrix, 1, n_simulations),
                              start_time |-> start_time])
                       /\ pc' = "launched"
                       /\ UNCHANGED <<returned, device_error>>
                  ELSE /\ pc' = "launched"
                       /\ device_error' = "LaunchError"
                       /\ UNCHANGED <<returned, outstanding, launch_log>>
    /\ UNCHANGED <<otherVars, baseFields, simFields, mode, args, n, start_time, start_array,
                   final_result, result, compiles, compile_calls, return_log>>

\* _run, lines 189-213: the buffers of one interval and its launch.
_run_launch ==
    /\ mode = "run" /\ pc = "alloc"
    /\ LET species_matrix == _create_gpu_init(start_array, _total_threads)
       IN  IF ~InitialsFit(start_array, _total_threads)
           THEN Raises("IndexError")
                /\ UNCHANGED <<dev, outstanding, launch_log, held, device_error>>
           ELSE \E launched \in BOOLEAN :
               /\ held' = held \cup Allocated(_run_buffers, n)
               /\ dev' = [kernel |-> "Gillespie_one_step",
                          species_matrix_gpu |-> species_matrix,
                          result |-> Zeros(_total_threads, _species_number),
                          start_time_gpu |-> start_time,
                          end_time |-> args.tspan[n + 1],
                          last_time_gpu |-> [i \in 1 .. n_simulations |-> 0],
                          param_tex |-> _param_tex.v,
                          seed |-> 0,
                          amode |-> "clamp",
                          block |-> _threads,
                          grid |-> _blocks]
               /\ IF launched
                  THEN /\ outstanding' = outstanding + 1
                       /\ launch_log' = Append(launch_log,
                             [kernel |-> "Gillespie_one_step",
                              end_time |-> args.tspan[n + 1],
                              start_state |-> SubSeq(species_matrix, 1, n_simulations),
                              start_time |-> start_time])
                       /\ pc' = "launched"
                       /\ UNCHANGED <<returned, device_error>>
                  ELSE /\ Raises("LaunchError")
                       /\ device_error' = "LaunchError"
                       /\ UNCHANGED <<outstanding, launch_log>>
    /\ UNCHANGED <<otherVars, baseFields, simFields, mode, args, n, start_time, start_array,
                   final_result, result, compiles, compile_calls, return_log>>

\* _run_all, lines 233-251: the buffers of the whole grid and the launch.
_run_all_launch ==
    /\ mode = "run_one_step" /\ pc = "alloc"
    /\ LET species_matrix == _create_gpu_init(args.initials, _total_threads)
       IN  IF ~InitialsFit(args.initials, _total_threads)
           THEN Raises("IndexError")
                /\ UNCHANGED <<dev, outstanding, launch_log, held, device_error>>
           ELSE \E launched \in BOOLEAN :
               /\ held' = held \cup Allocated(_run_all_buffers, 1)
               /\ dev' = [kernel |-> "Gillespie_all_steps",
                          species_matrix_gpu |-> species_matrix,
                          result |-> [i \in 1 .. _total_threads |->
                                        Zeros(len_time, _species_number)],
                          time_points_gpu |-> args.tspan,
                          n_results |-> len_time,
                          param_tex |-> _param_tex.v,
                          seed |-> 0,
                          amode |-> "clamp",
                          block |-> _threads,
                          grid |-> _blocks]
               /\ IF launched
                  THEN /\ outstanding' = outstanding + 1
                       /\ launch_log' = Append(launch_log,
                             [kernel |-> "Gillespie_all_steps",
                              time_points |-> args.tspan,
                              n_results |-> len_time,
                              start_state |-> SubSeq(species_matrix, 1, n_simulations)])
                       /\ pc' = "launched"
                       /\ UNCHANGED <<returned, device_error>>
                  ELSE /\ Raises("LaunchError")
                       /\ device_error' = "LaunchError"
                       /\ UNCHANGED <<outstanding, launch_log>>
    /\ UNCHANGED <<otherVars, baseFields, simFields, mode, args, n, start_time, start_array,
                   final_result, result, compiles, compile_calls, return_log>>

\* What the device has written when the kernel of dev has run.
KernelRun(d, seed, amode) ==
    IF d.kernel = "Gillespie_one_step"
    THEN LET out == Gillespie_one_step(d.species_matrix_gpu, d.param_tex,
                                       Len(d.last_time_gpu), d.end_time, seed, amode)
         IN  [d EXCEPT !.result = out.result, !.last_time_gpu = out.last_time,
                       !.seed = seed, !.amode = amode]
    ELSE [d EXCEPT !.result =
              Gillespie_all_steps(d.species_matrix_gpu, d.param_tex, d.n_results,
                                  seed, amode),
                   !.seed = seed, !.amode = amode]

synchronize_NoWait ==
    /\ pc = "launched"
    /\ pc' = "synced"
    /\ UNCHANGED <<otherVars, baseFields, simFields, mode, args, n, start_time, start_array,
                   final_result, dev, outstanding, result, returned, held, histVars>>

\* pycuda.autoinit.context.synchronize(), lines 216 and 254: the host
\* blocks until the device has completed; a kernel fault surfaces here.
synchronize ==
    /\ pc = "launched"
    /\ \E completed \in BOOLEAN :
        IF completed
        THEN /\ \E seed \in Seeds, amode \in AddressModes :
                  dev' = KernelRun(dev, seed, amode)
             /\ pc' = "synced"
             /\ UNCHANGED <<returned, device_error>>
        ELSE /\ Raises("SyncError")
             /\ device_error' = "SyncError"
             /\ UNCHANGED dev
    /\ outstanding' = 0
    /\ UNCHANGED <<otherVars, baseFields, simFields, mode, args, n, start_time, start_array,
                   final_result, result, held, compiles, compile_calls, launch_log,
                   return_log>>

\* _run, lines 219-222: what one interval hands back.
_run_collect ==
    [result |-> SubSeq(dev.result, 1, n_simulations),
     current_time |-> SubSeq(dev.last_time_gpu, 1, n_simulations)]

\* run's loop body without "start_array = result": every interval starts
\* from the supplied initials.
run_step_KeepsStart ==
    /\ mode = "run" /\ pc = "synced"
    /\ result' = _run_collect
    /\ start_time' = result'.current_time
    /\ final_result' =
          [i \in DOMAIN final_result |->
              [final_result[i] EXCEPT ![n + 1] = result'.result[i]]]
    /\ n' = n + 1
    /\ pc' = "loop"
    /\ return_log' = Append(return_log, result')
    /\ held' = Allocated({"result"}, n)
    /\ UNCHANGED <<otherVars, baseFields, simFields, mode, args, start_array, dev, outstanding,
                   returned, compiles, compile_calls, device_error, launch_log>>

\* The loop body writing the interval's result into the array start_array
\* names; for the first interval that array is the caller's initials
\* (line 354).
run_step_InPlace ==
    /\ mode = "run" /\ pc = "synced"
    /\ result' = _run_collect
    /\ start_time' = result'.current_time
    /\ final_result' =
          [i \in DOMAIN final_result |->
              [final_result[i] EXCEPT ![n + 1] = result'.result[i]]]
    /\ start_array' = result'.result
    /\ args' = (IF n = 1 THEN [args EXCEPT !.initials = result'.result] ELSE args)
    /\ n' = n + 1
    /\ pc' = "loop"
    /\ return_log' = Append(return_log, result')
    /\ held' = Allocated({"result"}, n)
    /\ UNCHANGED <<otherVars, baseFields, simFields, mode, dev, outstanding, returned,
                   compiles, compile_calls, device_error, launch_log>>

\* run, lines 362-368: the interval's result becomes slot n of the result
\* array and the start state and start times of the next interval.
run_step ==
    /\ mode = "run" /\ pc = "synced"
    /\ result' = _run_collect
    /\ start_time' = result'.current_time
    /\ final_result' =
          [i \in DOMAIN final_result |->
              [final_result[i] EXCEPT ![n + 1] = result'.result[i]]]
    /\ start_array' = result'.result
    /\ n' = n + 1
    /\ pc' = "loop"
    /\ return_log' = Append(return_log, result')
    /\ held' = Allocated({"result"}, n)
    /\ UNCHANGED <<otherVars, baseFields, simFields, mode, args, dev, outstanding, returned,
                   compiles, compile_calls, device_error, launch_log>>

\* tout = len(param_values) * [None]; tout[n] = tspan
tout == [i \in 1 .. n_simulations |-> args.tspan]

\* run, line 373, after the last interval
run_result ==
    /\ mode = "run" /\ pc = "loop" /\ n >= len_time
    /\ returned' = SimulationResult(<<Self, tout, final_result>>, <<>>)
    /\ held' = (IF returned'.kind = "return" THEN {} ELSE held)
    /\ pc' = "returned"
    /\ UNCHANGED <<otherVars, baseFields, simFields, mode, args, n, start_time, start_array,
                   final_result, dev, outstanding, result, histVars>>

_run_all_collect_Unsliced == dev.result

\* _run_all, line 257
_run_all_collect == SubSeq(dev.result, 1, n_simulations)

\* run_one_step, lines 299-304
run_one_step_result ==
    /\ mode = "run_one_step" /\ pc = "synced"
    /\ result' = _run_all_collect
    /\ returned' = SimulationResult(<<Self, tout, result'>>, <<>>)
    /\ held' = Allocated({"result"}, 1)
    /\ pc' = "returned"
    /\ UNCHANGED <<otherVars, baseFields, simFields, mode, args, n, start_time, start_array,
                   final_result, dev, outstanding, histVars>>

\* The call is over: its frame and the buffers it referenced are gone, the
\* simulator object stays.
call_ends ==
    /\ pc = "returned"
    /\ pc' = "idle"
    /\ mode' = None /\ args' = None /\ n' = 0
    /\ start_time' = None /\ start_array' = None /\ final_result' = None
    /\ dev' = None /\ outstanding' = 0 /\ result' = None /\ returned' = None
    /\ held' = {} /\ compile_calls' = 0 /\ device_error' = None
    /\ launch_log' = <<>> /\ return_log' = <<>>
    /\ UNCHANGED <<otherVars, baseFields, simFields, compiles>>

\* The variables of initials_list in a specification that does not call it.
IcOff == initial_conditions = <<>> /\ y0 = None /\ ic_pc = "off"

\* A simulator constructed without initials and param_values (base.py,
\* lines 76-79).
BaseOff == _params = NoneValue /\ _initials = NoneValue

\* The generation variables of a specification that generates nothing.
GenOff ==
    /\ gen_model = None /\ stoich_string = <<>> /\ hazards_string = <<>>
    /\ codes = <<>>

Init ==
    /\ SimInit
    /\ BaseOff
    /\ initial_conditions = <<<<"A", Par(0)>>>> /\ y0 = None /\ ic_pc = "off"
    /\ model_reactions = <<>> /\ stoich_pc = "off"
    /\ right_side = None /\ left_side = None /\ stoich_matrix = None
    /\ rate_in = <<>> /\ rate = <<>> /\ rate_pc = "off"
    /\ GenOff

Next ==
    \/ run
    \/ run_one_step
    \/ _setup
    \/ SkipSetup
    \/ _run_launch
    \/ _run_all_launch
    \/ synchronize
    \/ run_step
    \/ run_result
    \/ run_one_step_result
    \/ call_ends

Spec == Init /\ [][Next]_vars

\* The simulator called with arguments left out.
NextDefaults ==
    \/ run_defaults
    \/ run_one_step_defaults
    \/ _setup
    \/ SkipSetup
    \/ _run_launch
    \/ _run_all_launch
    \/ synchronize
    \/ run_step
    \/ run_result
    \/ run_one_step_result
    \/ call_ends

SpecDefaults == Init /\ [][NextDefaults]_vars

\* The simulator variables of a specification that constructs no simulator.
SimOff ==
    /\ _step_0 = TRUE /\ _kernel = None /\ _param_tex = NoneValue
    /\ _threads = None /\ _blocks = None /\ _total_threads = 0
    /\ pc = "off" /\ mode = None /\ args = None /\ n = 0
    /\ start_time = None /\ start_array = None /\ final_result = None
    /\ dev = None /\ outstanding = 0 /\ result = None /\ returned = None
    /\ held = {} /\ compile_calls = 0 /\ device_error = None
    /\ compiles = 0 /\ launch_log = <<>> /\ return_log = <<>>


InitCodegen ==
    /\ GenInit
    /\ BaseOff
    /\ IcOff
    /\ model_reactions = <<>> /\ stoich_pc = "off"
    /\ right_side = None /\ left_side = None /\ stoich_matrix = None
    /\ rate_in = <<>> /\ rate = <<>> /\ rate_pc = "off"
    /\ SimOff

SpecCodegen == InitCodegen /\ [][GenNext]_vars

InitStoich ==
    /\ StoichInit
    /\ BaseOff
    /\ IcOff
    /\ rate_in = <<>> /\ rate = <<>> /\ rate_pc = "off"
    /\ GenOff
    /\ SimOff

SpecStoich == InitStoich /\ [][StoichNext]_vars

InitRate ==
    /\ RateInit
    /\ BaseOff
    /\ IcOff
    /\ GenOff
    /\ model_reactions = <<>> /\ stoich_pc = "off"
    /\ right_side = None /\ left_side = None /\ stoich_matrix = None
    /\ SimOff

SpecRate == InitRate /\ [][RateNext]_vars

InitInitials ==
    /\ InitialsInit
    /\ model_reactions = <<>> /\ stoich_pc = "off"
    /\ right_side = None /\ left_side = None /\ stoich_matrix = None
    /\ rate_in = <<>> /\ rate = <<>> /\ rate_pc = "off"
    /\ GenOff
    /\ SimOff

SpecInitials == InitInitials /\ [][InitialsNext]_vars

\* ------------------------------------------------------------------------
\* Properties
\* ------------------------------------------------------------------------
Occurrences(side, j) == Cardinality({k \in DOMAIN side : side[k] = j})

NetChange(rxn, j) == Occurrences(rxn.products, j) - Occurrences(rxn.reactants, j)

\* C1: for every reaction i and species j, (_rhs(model) + _lhs(model))[i][j],
\* and the entry of the transposed matrix used for code generation, is the
\* number of occurrences of j among reaction i's products minus the number
\* among its reactants, counted with multiplicity.
C1_NetChange ==
    stoich_pc = "done" =>
        \A i \in 1 .. Len(model_reactions) : \A j \in SpeciesIdx :
            /\ MatAdd(right_side, left_side)[i][j + 1] = NetChange(model_reactions[i], j)
            /\ stoich_matrix[j + 1][i] = NetChange(model_reactions[i], j)

\* A reaction with a repeated reactant or product index has been processed.
C1_Witness ==
    /\ stoich_pc = "done"
    /\ \E i \in 1 .. Len(model_reactions) : \E j \in SpeciesIdx :
        /\ Occurrences(model_reactions[i].products, j) = 2
        /\ Occurrences(model_reactions[i].reactants, j) = 1
        /\ stoich_matrix[j + 1][i] = 1

\* What the rewriting of one factor must be: the species, then one factor
\* (species - i) for each i in 1..p-1, from that factor's own species and power.
OwnExpansion(f) ==
    IF Len(f) = 3
    THEN Repl([s |-> f[1].i, p |-> f[3].i])
    ELSE f

RECURSIVE FactorsOf(_, _)
FactorsOf(text, i) ==
    IF i > Len(text) THEN <<>>
    ELSE IF PatternAt(text, i)
         THEN <<SubSeq(text, i, i + 2)>> \o FactorsOf(text, i + 4)
         ELSE <<SubSeq(text, i, i)>> \o FactorsOf(text, i + 2)

RECURSIVE ExpandEach(_)
ExpandEach(fs) ==
    IF Len(fs) = 1 THEN OwnExpansion(fs[1])
    ELSE OwnExpansion(fs[1]) \o <<Op("*")>> \o ExpandEach(Tail(fs))

\* C10: every integer-power term species**p of a rate is rewritten into the
\* species followed by exactly p-1 factors (species - i), i = 1..p-1, built
\* from that term's own species and power, also when the rate holds several
\* power terms.
C10_EachPowerOwnExpansion ==
    rate_pc = "powers" => rate = ExpandEach(FactorsOf(rate_in, 1))

\* ------------------------------------------------------------------------
\* Properties of the generated source
\* ------------------------------------------------------------------------
\* What a reference must become: parameter q its table lookup at the
\* thread's row, species k the array read y[k].
Reference(f) ==
    IF f.t = "par" THEN tex2D(f.i) ELSE <<"y", "[">> \o repr(f.i) \o <<"]">>

RECURSIVE References(_)
References(expr) ==
    IF Len(expr) = 1 THEN Reference(expr[1])
    ELSE Reference(expr[1]) \o <<"*">> \o References(Tail(expr))

RECURSIVE IntendedHazards(_, _)
IntendedHazards(rxns, k) ==
    IF k >= Len(rxns) THEN <<>>
    ELSE <<"\t", "h", "[">> \o repr(k) \o <<"]", " ", "=", " ">>
             \o References(rxns[k + 1].rate) \o <<";", "\n">>
             \o IntendedHazards(rxns, k + 1)

NoPowers(mdl) ==
    \A k \in DOMAIN mdl.reactions : \A f \in DOMAIN mdl.reactions[k].rate :
        mdl.reactions[k].rate[f].p = 1

\* C17: in the hazards of a model whose rates are products of parameters and
\* species, every reference to parameter q is the lookup
\* tex2D(param_tex,q,tid) and every reference to species k is y[k], whatever
\* the parameters are called: no substitution rewrites a part of a name.
C17_WholeNamesReplaced ==
    (Len(codes) > 0 /\ NoPowers(gen_model)) =>
        hazards_string = IntendedHazards(gen_model.reactions, 0)

\* The text the generator is to return for the model as it is.
SourceOf(mdl) ==
    cs_string(mdl,
              stoich_loop(Transpose(MatAdd(_rhs(mdl.reactions), _lhs(mdl.reactions)),
                                    _species_number), 0, <<>>),
              hazards_loop(mdl.reactions, mdl.parameters, 0, <<>>))

InRun == pc \in {"loop", "enter", "alloc", "launched", "synced", "returned"}

\* The call went through every launch and collection it was to make: it
\* was not ended by an exception of the device or of the buffer set-up.
Completed ==
    /\ pc = "returned"
    /\ returned.kind = "raise" =>
          returned.exc \notin DeviceErrors \cup {"IndexError", "ValueError"}

\* The matrices of the call have the shape the engine documents: one
\* parameter row of n_parameters columns and one initial-state row of
\* n_species columns per trajectory.
WellFormed ==
    /\ \A i \in 1 .. Len(args.param_values) :
          Len(args.param_values[i]) = _parameter_number
    /\ Len(args.initials) = Len(args.param_values)
    /\ \A i \in 1 .. Len(args.initials) : Len(args.initials[i]) = _species_number

\* The simulator was set up by an earlier run whose geometry was another.
EarlierGeometry ==
    /\ ~_step_0
    /\ Len(_param_tex.v) # _total_threads

\* C2: in every run, of either mode and whatever ran before, thread_count is
\* the requested block size (128 when threads is None), block_count is the
\* integer ceil(n_simulations / thread_count), and total_threads =
\* block_count * thread_count is a multiple of thread_count with
\* n_simulations <= total_threads < n_simulations + thread_count.
C2_LaunchGeometry ==
    InRun =>
        /\ _threads = (IF args.threads.none THEN DefaultThreads ELSE args.threads.v)
        /\ _blocks \in Nat
        /\ _blocks * _threads >= n_simulations
        /\ (_blocks - 1) * _threads < n_simulations
        /\ _total_threads = _blocks * _threads
        /\ _total_threads % _threads = 0
        /\ n_simulations <= _total_threads
        /\ _total_threads < n_simulations + _threads

\* A later run on the same simulator, with a trajectory count that needs
\* several blocks and leaves padding.
C2_Witness ==
    /\ pc = "launched"
    /\ EarlierGeometry
    /\ _blocks > 1
    /\ _total_threads > n_simulations

\* The species state a trajectory must reach from state y under the
\* parameters the caller supplied for row i, with the draws of the launch.
SuppliedStep(y, i) == OneStep(y, args.param_values[i][1], Draw(dev.seed, i))

\* C3: for matrices of the documented shape,
\* the array handed back by _run / _run_all has exactly n_simulations
\* rows, the rows of the device buffer with the same index (no padding row),
\* and row i is the trajectory started from row i of the supplied initial
\* states under row i of the supplied parameters.
C3_RowsOfSuppliedInputs ==
    /\ (mode = "run" /\ pc = "loop" /\ Len(return_log) > 0 /\ WellFormed) =>
          /\ Len(result.result) = n_simulations
          /\ \A i \in 1 .. n_simulations :
                /\ result.result[i] = dev.result[i]
                /\ result.result[i] =
                      SuppliedStep(launch_log[Len(launch_log)].start_state[i], i)
    /\ (mode = "run_one_step" /\ Completed /\ WellFormed) =>
          /\ Len(result) = n_simulations
          /\ \A i \in 1 .. n_simulations :
                /\ result[i] = dev.result[i]
                /\ result[i] = Trajectory(args.initials[i], args.param_values[i][1],
                                          dev.seed, i, len_time)

\* C4: the kernel is compiled once per simulator: a launch is only made
\* with the kernel compiled, the first-run flag is set exactly as long as
\* nothing was compiled, and no run compiles a second time.
C4_CompiledOnce ==
    /\ compiles <= 1
    /\ _step_0 <=> (compiles = 0)
    /\ (_kernel = "SourceModule") <=> (compiles = 1)
    /\ (outstanding > 0 \/ Len(launch_log) > 0) => compiles = 1

\* A launch of a run that did not compile: the kernel is the one an earlier
\* run compiled.
C4_Witness ==
    /\ pc = "launched"
    /\ EarlierGeometry
    /\ compiles = 1

\* C5: in a run given matrices of the documented shape,
\* at every kernel launch the device parameter table has total_threads
\* rows and its rows [0, n_simulations) are the param_values of this run.
C5_ParamsOfThisRun ==
    (pc = "launched" /\ WellFormed) =>
        /\ Len(dev.param_tex) = _total_threads
        /\ \A i \in 1 .. n_simulations : dev.param_tex[i] = args.param_values[i]

\* C6: in step mode the launches follow the grid: launch k ends at tspan[k],
\* starts from the state and the per-trajectory times launch k-1 handed back
\* (the supplied initials and tspan[0] for k = 1), and a run that goes
\* through has made exactly T-1 launches.
C6_StepChain ==
    mode = "run" =>
        /\ Len(launch_log) <= len_time - 1
        /\ Completed => Len(launch_log) = len_time - 1
        /\ \A k \in 1 .. Len(launch_log) :
              /\ launch_log[k].kernel = "Gillespie_one_step"
              /\ launch_log[k].end_time = args.tspan[k + 1]
              /\ launch_log[k].start_state =
                    (IF k = 1 THEN args.initials ELSE return_log[k - 1].result)
              /\ launch_log[k].start_time =
                    (IF k = 1 THEN [i \in 1 .. n_simulations |-> args.tspan[1]]
                     ELSE return_log[k - 1].current_time)

\* The second launch of a run starts from a state the first launch changed
\* and from a clock that is not the grid point.
C6_Witness ==
    /\ mode = "run"
    /\ Len(launch_log) = 2
    /\ launch_log[2].start_state # args.initials
    /\ \E i \in 1 .. n_simulations : launch_log[2].start_time[i] # args.tspan[2]

\* C7: never more than one launch is outstanding, and none is when the host
\* reads the buffers of a launch, issues the next launch or leaves the run.
C7_SynchronizedBeforeUse ==
    /\ outstanding <= 1
    /\ pc \in {"synced", "loop", "enter", "alloc", "returned", "idle"} => outstanding = 0

\* The second launch of a run has been synchronized.
C7_Witness ==
    /\ pc = "synced"
    /\ Len(launch_log) = 2
    /\ outstanding = 0

\* C8: in all-steps mode a run makes one launch whatever the number of time
\* points, the launch is given the whole grid and its length, and the array
\* handed back has one slot per grid entry for each of the n_simulations
\* trajectories.
C8_OneLaunchWholeGrid ==
    mode = "run_one_step" =>
        /\ Len(launch_log) <= 1
        /\ pc \in {"launched", "synced"} \/ Completed =>
              /\ Len(launch_log) = 1
              /\ launch_log[1].kernel = "Gillespie_all_steps"
              /\ launch_log[1].time_points = args.tspan
              /\ launch_log[1].n_results = Len(args.tspan)
        /\ Completed =>
              /\ Len(result) = n_simulations
              /\ \A i \in 1 .. n_simulations : Len(result[i]) = Len(args.tspan)

\* An all-steps run over three time points with padding has gone through.
C8_Witness ==
    /\ mode = "run_one_step"
    /\ Completed
    /\ Len(args.tspan) = 3
    /\ _total_threads > n_simulations
    /\ Len(launch_log) = 1

\* A matrix of the run is malformed: a parameter row or an initial-state row
\* lacks columns, or the initial states have more rows than the launch has
\* threads.
Malformed ==
    \/ \E i \in 1 .. Len(args.param_values) :
          Len(args.param_values[i]) < _parameter_number
    \/ \E i \in 1 .. Len(args.initials) : Len(args.initials[i]) < _species_number
    \/ Len(args.initials) > _total_threads

\* C11: a run given a malformed parameter or initial-state matrix makes no
\* kernel launch and ends with an error; it does not go on with truncated or
\* zero-filled rows.
C11_MalformedRejected ==
    (InRun /\ Malformed) =>
        /\ launch_log = <<>>
        /\ outstanding = 0
        /\ pc = "returned" => returned.kind = "raise"

\* C12: a run in which a kernel launch (or its synchronization) fails ends
\* there: the caller gets the error and nothing else, whatever number of
\* intervals had completed before.
C12_NoPartialResult ==
    device_error # None =>
        /\ pc = "returned"
        /\ returned = Raise(device_error)

\* A step-mode run whose second launch failed after the first interval
\* completed.
C12_Witness ==
    /\ mode = "run"
    /\ device_error = "LaunchError"
    /\ Len(return_log) = 1
    /\ len_time = 3
    /\ returned.kind = "raise"

\* The run called _compile and the simulator has no compiled kernel: the
\* compilation failed.
CompileFailed == compile_calls > 0 /\ compiles = 0

\* C13: a run compiles at most once; when the compilation fails the run is
\* over with the compiler's error, nothing was uploaded or launched, and the
\* simulator is as before: first-run flag set, kernel and parameter texture
\* unset.
C13_CompileFailureFatal ==
    /\ compile_calls <= 1
    /\ CompileFailed =>
          /\ pc = "returned"
          /\ returned = Raise("CompileError")
          /\ _step_0
          /\ _kernel = None
          /\ _param_tex = NoneValue
          /\ launch_log = <<>>
          /\ outstanding = 0
          /\ held = {}

\* The compilation of an all-steps run failed.
C13_Witness ==
    /\ CompileFailed
    /\ pc = "returned"
    /\ returned = Raise("CompileError")
    /\ mode = "run_one_step"
    /\ _step_0

\* C14: when a run has ended, by completion or by a launch or
\* synchronization failure, none of the device buffers it acquired is alive.
C14_BuffersReleased ==
    pc \in {"returned", "idle"} => held = {}

\* C15: a kernel is only launched with buffers that have one row or entry per
\* launched thread: the species and result buffers, the parameter table and,
\* in step mode, the start-time and last-time buffers all have total_threads
\* entries; a buffer of another size stops the run before the launch.
C15_SizesChecked ==
    pc = "launched" =>
        /\ Len(dev.species_matrix_gpu) = _total_threads
        /\ Len(dev.result) = _total_threads
        /\ Len(dev.param_tex) = _total_threads
        /\ dev.kernel = "Gillespie_one_step" =>
              /\ Len(dev.start_time_gpu) = _total_threads
              /\ Len(dev.last_time_gpu) = _total_threads

\* The rows of m from row from on hold zeros only.
ZeroFrom(m, from) ==
    \A i \in from .. Len(m) : \A j \in 1 .. Len(m[i]) : m[i][j] = 0

\* The state the launch just made was to start from.
StartOfLaunch ==
    IF mode = "run_one_step" \/ Len(launch_log) = 1 THEN args.initials
    ELSE return_log[Len(launch_log) - 1].result

\* C16: for matrices of the documented shape, the parameter buffer built by
\* _setup and the species buffer built for every launch have total_threads
\* rows; rows [0, n_simulations) are the supplied parameter rows and the
\* start states, entry for entry, and rows [n_simulations, total_threads)
\* are zero throughout.
C16_PaddedBuffers ==
    /\ (InRun /\ compile_calls = 1 /\ compiles = 1 /\ WellFormed) =>
          /\ Len(_param_tex.v) = _total_threads
          /\ \A i \in 1 .. n_simulations : _param_tex.v[i] = args.param_values[i]
          /\ ZeroFrom(_param_tex.v, n_simulations + 1)
    /\ (pc = "launched" /\ WellFormed) =>
          /\ Len(dev.species_matrix_gpu) = _total_threads
          /\ \A i \in 1 .. n_simulations :
                dev.species_matrix_gpu[i] = StartOfLaunch[i]
          /\ ZeroFrom(dev.species_matrix_gpu, n_simulations + 1)

\* The second launch of the run that set the simulator up, with padding rows
\* and non-zero supplied rows.
C16_Witness ==
    /\ pc = "launched"
    /\ WellFormed
    /\ compile_calls = 1 /\ compiles = 1
    /\ Len(launch_log) = 2
    /\ n_simulations = 2
    /\ _total_threads > n_simulations
    /\ _param_tex.v[2] = <<2>>
    /\ dev.species_matrix_gpu[2] # <<0, 0>>

\* The propensity of thread tid's only reaction at the start of the launch.
StartHazard(tid) ==
    Hazard(dev.species_matrix_gpu[tid], TexRead(dev.param_tex, 1, tid, dev.amode))

OtherModeFinal(i) ==
    LET species_matrix == _create_gpu_init(args.initials, _total_threads)
    IN  IF dev.kernel = "Gillespie_all_steps"
        THEN Gillespie_one_step(species_matrix, dev.param_tex, n_simulations,
                                args.tspan[2], dev.seed, dev.amode).result[i]
        ELSE Gillespie_all_steps(species_matrix, dev.param_tex, 2, dev.seed,
                                 dev.amode)[i][2]

\* The final state of trajectory i in the launch that has completed.
ThisModeFinal(i) ==
    IF dev.kernel = "Gillespie_all_steps" THEN _run_all_collect[i][2]
    ELSE _run_collect.result[i]

RunArray == IF mode = "run" THEN final_result ELSE result

\* C9: a run whose launches all complete returns a SimulationResult holding
\* each trajectory's time grid and the n_simulations x len(tspan) x
\* n_species array.
C9_ReturnsContainer ==
    Completed =>
        /\ returned.kind = "return"
        /\ returned.value.tout = Some(tout)
        /\ returned.value._y = RunArray
        /\ Len(RunArray) = n_simulations
        /\ \A i \in 1 .. n_simulations :
              /\ Len(RunArray[i]) = len_time
              /\ \A k \in 1 .. len_time : Len(RunArray[i][k]) = _species_number

\* ------------------------------------------------------------------------
\* Properties of initials_list
\* ------------------------------------------------------------------------
\* The amount a value stands for.
ValueOf(value_obj) ==
    IF value_obj.t = "num" THEN value_obj.i ELSE param_values[value_obj.i + 1]

Has(items, cp) == \E k \in DOMAIN items : items[k][1] = cp

Item(items, cp) == items[CHOOSE k \in DOMAIN items : items[k][1] = cp][2]

\* C22: with a dictionary of overrides, initials_list returns the override
\* for every overridden species, an override of 0 included, and the
\* model's initial condition (0 without one) for every other species.
C22_OverridesWin ==
    (/\ ic_pc = "returned"
     /\ ~_initials.none /\ _initials.type = "dict"
     /\ y0.kind = "return") =>
        \A si \in DOMAIN model_species :
            y0.value[si] =
                (IF Has(_initials.v, model_species[si])
                 THEN ValueOf(Item(_initials.v, model_species[si]))
                 ELSE IF Has(initial_conditions, model_species[si])
                      THEN ValueOf(Item(initial_conditions, model_species[si]))
                      ELSE 0)

\* The model's initial amounts as run builds them.
NominalInitials ==
    species_initials(initial_conditions, [j \in 1 .. _species_number |-> 0])

\* C21: a call of run or run_one_step that leaves out param_values and
\* initials builds number_sim identical rows of the nominal parameters and
\* number_sim identical rows of the model's initial amounts, the setters
\* store both, and the call proceeds without an exception, whatever
\* number_sim is.
C21_DefaultsStored ==
    (InRun /\ args.given = <<FALSE, FALSE>>) =>
        /\ args.param_values = [i \in 1 .. args.number_sim |-> nominal_values]
        /\ args.initials = [i \in 1 .. args.number_sim |-> NominalInitials]
        /\ ~_params.none /\ _params.v = args.param_values
        /\ ~_initials.none /\ _initials.v = args.initials
        /\ ~(pc = "returned" /\ returned.kind = "raise"
                            /\ returned.exc = "ValueError")

\* The result array of a step-mode run whose initials fit it: slot 0 is the
\* supplied initial state, slot k the state launch k returned, and a slot
\* no launch has written yet is zero.
SlotsInOrder ==
    (mode = "run" /\ Broadcasts(args.initials, n_simulations, _species_number)) =>
        /\ n = Len(return_log) + 1
        /\ \A i \in 1 .. n_simulations : \A k \in 1 .. len_time :
              final_result[i][k] =
                  (IF k = 1
                   THEN Broadcast(args.initials, n_simulations, _species_number)[i]
                   ELSE IF k <= n THEN return_log[k - 1].result[i]
                   ELSE [j \in 1 .. _species_number |-> 0])

\* A step of a step-mode run leaves the caller's arrays and the slots
\* written before it as they are.
SlotsKept ==
    (mode = "run" /\ mode' = "run") =>
        /\ args' = args
        /\ Len(final_result') = Len(final_result)
        /\ \A i \in 1 .. n_simulations : \A k \in 1 .. n :
              final_result'[i][k] = final_result[i][k]

\* C23: in step mode the result array is written once per grid index and in
\* order: slot 0 of every trajectory is the supplied initial state, slot k
\* the state launch k returned, no launch changes a slot written before it,
\* and the run does not modify the param_values and initials the caller
\* passed.
C23_SlotsWrittenOnce == [][SlotsInOrder' /\ SlotsKept]_vars

\* Two launches of one run have filled two slots with states that differ
\* from each other and from the initial state.
C23_Witness ==
    /\ mode = "run" /\ pc = "loop" /\ n = 3
    /\ Broadcasts(args.initials, n_simulations, _species_number)
    /\ final_result[1][2] # final_result[1][1]
    /\ final_result[1][3] # final_result[1][2]
    /\ final_result[1][1] =
          Broadcast(args.initials, n_simulations, _species_number)[1]

====
